---------------------------- MODULE Spec2Model ----------------------------
(***************************************************************************)
(* A model of the wallpaper manager (src/src/wallpaper_manager.rs): the    *)
(* Profile Store, the Wallpaper Setter, the Scheduler and the Config       *)
(* Codec.                                                                  *)
(*                                                                         *)
(* A string of the program is a sequence of one-character strings, so that *)
(* contains, strip_prefix, split, find, parse and Path::extension are      *)
(* computed character by character as the code computes them.              *)
(***************************************************************************)
EXTENDS Integers, Sequences, FiniteSets, TLC

VARIABLES
    monitors,           \* WallpaperManager.monitors: the device_name of each MonitorInfo
    profiles,           \* WallpaperManager.profiles: name -> (device -> wallpaper path)
    schedule,           \* WallpaperManager.schedule: sequence of ScheduleEntry
    scheduler_running,  \* WallpaperManager.scheduler_running (the shared AtomicBool)
    tasks,              \* the threads spawned by start_scheduler, in spawn order
    starting,           \* the start_scheduler calls between their load and their store of the flag
    clock,              \* the wall clock (Local::now()), in poll intervals since midnight
    engine,             \* the OS wallpaper engine: its monitor ids, their wallpapers, its answers
    file,               \* the config file on disk
    op,                 \* the last operation performed
    args,               \* its arguments
    ret,                \* its return value
    calls               \* the calls the last operation made on the Wallpaper Setter or on the OS

vars == <<monitors, profiles, schedule, scheduler_running, tasks, starting, clock,
          engine, file, op, args, ret, calls>>

-----------------------------------------------------------------------------
(* Strings *)

\* s[from..] of Rust, with a 1-based first position
Drop(s, from) == SubSeq(s, from, Len(s))

\* str::starts_with
StartsWith(s, p) == Len(p) <= Len(s) /\ SubSeq(s, 1, Len(p)) = p

\* str::ends_with
EndsWith(s, p) == Len(p) <= Len(s) /\ SubSeq(s, Len(s) - Len(p) + 1, Len(s)) = p

\* str::contains: sub occurs in s as a contiguous substring
Contains(s, sub) ==
    \E i \in 0..(Len(s) - Len(sub)) : SubSeq(s, i + 1, i + Len(sub)) = sub

\* the positions of character c in s
Positions(s, c) == {i \in 1..Len(s) : s[i] = c}

Min(S) == CHOOSE x \in S : \A y \in S : x <= y
Max(S) == CHOOSE x \in S : \A y \in S : x >= y

UpperCase == <<"A", "B", "C", "D", "E", "F", "G", "H", "I", "J", "K", "L", "M",
               "N", "O", "P", "Q", "R", "S", "T", "U", "V", "W", "X", "Y", "Z">>
LowerCase == <<"a", "b", "c", "d", "e", "f", "g", "h", "i", "j", "k", "l", "m",
               "n", "o", "p", "q", "r", "s", "t", "u", "v", "w", "x", "y", "z">>

\* char lowercasing, as str::to_lowercase does on ASCII letters
LowerChar(c) ==
    IF \E i \in 1..Len(UpperCase) : UpperCase[i] = c
    THEN LowerCase[CHOOSE i \in 1..Len(UpperCase) : UpperCase[i] = c]
    ELSE c

\* str::to_lowercase
to_lowercase(s) == [i \in 1..Len(s) |-> LowerChar(s[i])]

-----------------------------------------------------------------------------
(* Paths: std::path::Path on Windows *)

IsSeparator(c) == c = "/" \/ c = "\\"

\* the components of a path: the maximal separator-free pieces, without the
\* empty ones and the "." ones (Path::components skips both)
RECURSIVE Components(_)
Components(p) ==
    IF p = <<>> THEN <<>>
    ELSE LET seps == {i \in 1..Len(p) : IsSeparator(p[i])}
             cut  == IF seps = {} THEN Len(p) + 1 ELSE Min(seps)
             head == SubSeq(p, 1, cut - 1)
             rest == Components(Drop(p, cut + 1))
         IN  IF head = <<>> \/ head = <<".">> THEN rest ELSE <<head>> \o rest

\* Path::file_name as a set: empty for None (no component, or a final "..")
file_name(p) ==
    LET cs == Components(p)
    IN  IF cs = <<>> \/ cs[Len(cs)] = <<".", ".">> THEN {} ELSE {cs[Len(cs)]}

\* Path::extension as a set: empty for None. The part of the file name after
\* its last '.', when there is a '.' and it is not the first character.
extension(p) ==
    LET dots(f) == Positions(f, ".")
    IN  {Drop(f, Max(dots(f)) + 1) : f \in {g \in file_name(p) : dots(g) # {} /\ Max(dots(g)) > 1}}

\* the formats matched in set_wallpaper_in_profile
Supported ==
    { <<"j", "p", "g">>, <<"j", "p", "e", "g">>, <<"p", "n", "g">>,
      <<"b", "m", "p">>, <<"g", "i", "f">>, <<"t", "i", "f", "f">> }


-----------------------------------------------------------------------------
(* Profile Store *)

\* HashMap::insert on a device -> path map
MapInsert(m, k, v) == [x \in (DOMAIN m) \cup {k} |-> IF x = k THEN v ELSE m[x]]

EmptyMap == [x \in {} |-> <<>>]

\* How the OS answers the calls made on the wallpaper engine: os.cap_ok is
\* whether CoCreateInstance gives the capability, os.count_ok whether
\* GetMonitorDevicePathCount succeeds, os.at_fail the positions at which
\* GetMonitorDevicePathAt fails, os.reject the positions of the monitors for
\* which SetWallpaper fails. Position 1 is the code's index 0. An answer that
\* is never asked for is left at its default.
OsStates(n) ==
    { [cap_ok |-> FALSE, count_ok |-> TRUE, at_fail |-> {}, reject |-> {}] }
    \cup { [cap_ok |-> TRUE, count_ok |-> FALSE, at_fail |-> {}, reject |-> r] :
             r \in SUBSET (1..n) }
    \cup { [cap_ok |-> TRUE, count_ok |-> TRUE, at_fail |-> a, reject |-> r] :
             a \in SUBSET (1..n), r \in SUBSET (1..n) }

\* every call on the engine succeeds
AllFine == [cap_ok |-> TRUE, count_ok |-> TRUE, at_fail |-> {}, reject |-> {}]

\* the state new() leaves behind, but for the monitor list
NoFile == [exists |-> FALSE, text |-> <<>>]
NoEngine == [ids |-> <<>>, wallpaper |-> <<>>, os |-> AllFine]

\* the extension check of set_wallpaper_in_profile: it is made only when the
\* path has an extension
extension_ok(wallpaper_path) ==
    \A e \in extension(wallpaper_path) : to_lowercase(e) \in Supported

device_found_any(mons, device_name) == TRUE

\* monitors.iter().any(|monitor| monitor.device_name == device_name)
device_found(mons, device_name) ==
    \E i \in 1..Len(mons) : mons[i] = device_name

\* whether set_wallpaper_in_profile passes all of its checks; file_exists is
\* what Path::exists answers for the path
assign_ok(profile_name, device_name, wallpaper_path, file_exists) ==
    /\ profile_name \in DOMAIN profiles
    /\ file_exists
    /\ extension_ok(wallpaper_path)
    /\ device_found(monitors, device_name)

\* a create_profile without the contains_key check
create_profile_overwrite(profile_name) ==
    /\ op' = "create_profile"
    /\ args' = [profile_name |-> profile_name]
    /\ ret' = TRUE
    /\ profiles' = [n \in (DOMAIN profiles) \cup {profile_name} |->
                      IF n = profile_name THEN EmptyMap ELSE profiles[n]]
    /\ UNCHANGED <<starting, monitors, schedule, scheduler_running, tasks, clock, engine, file, calls>>

create_profile(profile_name) ==
    /\ op' = "create_profile"
    /\ args' = [profile_name |-> profile_name]
    /\ IF profile_name \in DOMAIN profiles
       THEN /\ ret' = FALSE
            /\ profiles' = profiles
       ELSE /\ ret' = TRUE
            /\ profiles' = [n \in (DOMAIN profiles) \cup {profile_name} |->
                              IF n = profile_name THEN EmptyMap ELSE profiles[n]]
    /\ UNCHANGED <<starting, monitors, schedule, scheduler_running, tasks, clock, engine, file, calls>>

\* an assign that replaces the profile's map by the one new mapping
set_wallpaper_in_profile_alone(profile_name, device_name, wallpaper_path, file_exists) ==
    /\ op' = "set_wallpaper_in_profile"
    /\ args' = [profile_name |-> profile_name, device_name |-> device_name,
                wallpaper_path |-> wallpaper_path, file_exists |-> file_exists]
    /\ IF assign_ok(profile_name, device_name, wallpaper_path, file_exists)
       THEN /\ ret' = TRUE
            /\ profiles' = [profiles EXCEPT ![profile_name] =
                              MapInsert(EmptyMap, device_name, wallpaper_path)]
       ELSE /\ ret' = FALSE
            /\ profiles' = profiles
    /\ UNCHANGED <<starting, monitors, schedule, scheduler_running, tasks, clock, engine, file, calls>>

\* set_wallpaper_in_profile: the four checks, then HashMap::insert
set_wallpaper_in_profile(profile_name, device_name, wallpaper_path, file_exists) ==
    /\ op' = "set_wallpaper_in_profile"
    /\ args' = [profile_name |-> profile_name, device_name |-> device_name,
                wallpaper_path |-> wallpaper_path, file_exists |-> file_exists]
    /\ IF assign_ok(profile_name, device_name, wallpaper_path, file_exists)
       THEN /\ ret' = TRUE
            /\ profiles' = [profiles EXCEPT ![profile_name] =
                              MapInsert(@, device_name, wallpaper_path)]
       ELSE /\ ret' = FALSE
            /\ profiles' = profiles
    /\ UNCHANGED <<starting, monitors, schedule, scheduler_running, tasks, clock, engine, file, calls>>

-----------------------------------------------------------------------------
(* The Profile Store under create_profile and set_wallpaper_in_profile *)

StoreNames == { <<"a">>, <<"b">> }

Display1 == <<"\\", "\\", ".", "\\", "D", "1">>
Display2 == <<"\\", "\\", ".", "\\", "D", "2">>
Unplugged == <<"\\", "\\", ".", "\\", "D", "9">>

StoreMonitorLists == { <<>>, <<Display1>>, <<Display1, Display2>> }
StoreDevices == {Display1, Display2, Unplugged}

StorePaths ==
    { <<"a", ".", "p", "n", "g">>, <<"a", ".", "P", "n", "G">>,
      <<"a", ".", "w", "e", "b", "p">>, <<"a", ".">>,
      <<"a">>, <<"d", ".", "p", "n", "g", "\\", ".", "p", "n", "g">> }

StoreInit ==
    /\ monitors \in StoreMonitorLists
    /\ profiles = [n \in {} |-> EmptyMap]
    /\ schedule = <<>>
    /\ scheduler_running = FALSE
    /\ tasks = <<>>
    /\ starting = {}
    /\ clock = 0
    /\ engine = NoEngine
    /\ file = NoFile
    /\ op = "new"
    /\ args = <<>>
    /\ ret = TRUE
    /\ calls = <<>>

StoreNext ==
    \/ \E n \in StoreNames : create_profile(n)
    \/ \E n \in StoreNames, d \in StoreDevices, w \in StorePaths, e \in BOOLEAN :
          set_wallpaper_in_profile(n, d, w, e)

Spec == StoreInit /\ [][StoreNext]_vars

-----------------------------------------------------------------------------
(* C9: set_wallpaper_in_profile with a device_name that is the device_name
   of no monitor of the current monitor list returns false and leaves the
   assignments of every profile as they were. *)
C9_UnknownDeviceRejected ==
    [][ (op' = "set_wallpaper_in_profile"
         /\ \A i \in 1..Len(monitors) : monitors[i] # args'.device_name)
        => (ret' = FALSE /\ profiles' = profiles) ]_vars

\* an assign for an unplugged device was refused although its profile exists,
\* its file exists and its extension is supported
C9_Witness ==
    /\ op = "set_wallpaper_in_profile"
    /\ \A i \in 1..Len(monitors) : monitors[i] # args.device_name
    /\ monitors # <<>>
    /\ args.profile_name \in DOMAIN profiles
    /\ args.file_exists
    /\ to_lowercase(args.wallpaper_path) = <<"a", ".", "p", "n", "g">>
    /\ ret = FALSE

(* C10: set_wallpaper_in_profile returns false and leaves the profiles as
   they were for every path whose extension, lowercased, is not one of jpg,
   jpeg, png, bmp, gif, tiff, a path without an extension included, also
   when the profile exists, the file exists and the device is known. *)
C10_UnsupportedExtensionRejected ==
    [][ (op' = "set_wallpaper_in_profile"
         /\ ~ \E e \in extension(args'.wallpaper_path) : to_lowercase(e) \in Supported)
        => (ret' = FALSE /\ profiles' = profiles) ]_vars

(* C11: create_profile(n) returns true and inserts an empty profile, leaving
   every other profile as it was, when n is absent; it returns false and
   leaves every profile, the one named n included, as it was when n is
   present. *)
C11_CreateProfile ==
    [][ op' = "create_profile"
        => IF args'.profile_name \in DOMAIN profiles
           THEN ret' = FALSE /\ profiles' = profiles
           ELSE /\ ret' = TRUE
                /\ DOMAIN profiles' = (DOMAIN profiles) \cup {args'.profile_name}
                /\ profiles'[args'.profile_name] = EmptyMap
                /\ \A n \in DOMAIN profiles : profiles'[n] = profiles[n] ]_vars

\* a create_profile on a name that has assignments was refused and the
\* assignments are still there
C11_Witness ==
    /\ op = "create_profile"
    /\ ret = FALSE
    /\ args.profile_name \in DOMAIN profiles
    /\ DOMAIN profiles[args.profile_name] # {}
    /\ Cardinality(DOMAIN profiles) = 2

(* C28: when the profile exists, the wallpaper file exists, the path has an
   extension that, lowercased, is supported, and device_name is the
   device_name of a monitor of the list, set_wallpaper_in_profile returns
   true and maps device_name to the path in that profile; every other
   mapping of the profile, every other profile, the schedule list and the
   monitor list stay as they were. *)
C28_AssignSetsOneMapping ==
    [][ (/\ op' = "set_wallpaper_in_profile"
         /\ args'.profile_name \in DOMAIN profiles
         /\ args'.file_exists
         /\ \E e \in extension(args'.wallpaper_path) : to_lowercase(e) \in Supported
         /\ \E i \in 1..Len(monitors) : monitors[i] = args'.device_name)
        => LET p == args'.profile_name
               d == args'.device_name
           IN  /\ ret' = TRUE
               /\ DOMAIN profiles' = DOMAIN profiles
               /\ DOMAIN profiles'[p] = (DOMAIN profiles[p]) \cup {d}
               /\ profiles'[p][d] = args'.wallpaper_path
               /\ \A x \in (DOMAIN profiles[p]) \ {d} : profiles'[p][x] = profiles[p][x]
               /\ \A n \in (DOMAIN profiles) \ {p} : profiles'[n] = profiles[n]
               /\ UNCHANGED <<schedule, monitors>> ]_vars

\* an assign succeeded in a profile that maps another device to another path,
\* beside another profile with a mapping of its own
C28_Witness ==
    /\ op = "set_wallpaper_in_profile"
    /\ ret = TRUE
    /\ \E x \in DOMAIN profiles[args.profile_name] :
          /\ x # args.device_name
          /\ profiles[args.profile_name][x] # args.wallpaper_path
    /\ \E n \in DOMAIN profiles :
          n # args.profile_name /\ DOMAIN profiles[n] # {}

-----------------------------------------------------------------------------
(* Wallpaper Setter *)

\* IDesktopWallpaper::SetWallpaper(id, path): it succeeds for the identifier
\* of a monitor the engine does not reject, and sets that monitor's wallpaper
engine_accepts(ids, os, id) ==
    \E k \in 1..Len(ids) : ids[k] = id /\ k \notin os.reject

engine_set(ids, wp, id, path) ==
    [k \in 1..Len(wp) |-> IF ids[k] = id THEN path ELSE wp[k]]

\* the match of an identifier against device_name in the Method 1 loop
is_match(monitor_id_str, device_name, i) ==
    \/ monitor_id_str = device_name
    \/ Contains(monitor_id_str, device_name)
    \/ Contains(device_name, monitor_id_str)
    \/ i = 1

\* Method 1: the loop over the engine's identifiers from position i on. sofar
\* is [success, log, wallpaper]; the loop breaks at the first call that succeeds.
RECURSIVE method1(_, _, _, _, _, _)
method1(ids, os, device_name, wallpaper_path, i, sofar) ==
    IF i > Len(ids) THEN sofar
    ELSE IF i \in os.at_fail
         THEN method1(ids, os, device_name, wallpaper_path, i + 1, sofar)
    ELSE IF ~ is_match(ids[i], device_name, i)
         THEN method1(ids, os, device_name, wallpaper_path, i + 1, sofar)
    ELSE IF engine_accepts(ids, os, ids[i])
         THEN [success |-> TRUE,
               log |-> Append(sofar.log, [method |-> 1, id |-> ids[i], ok |-> TRUE]),
               wallpaper |-> engine_set(ids, sofar.wallpaper, ids[i], wallpaper_path)]
    ELSE method1(ids, os, device_name, wallpaper_path, i + 1,
                 [sofar EXCEPT !.log = Append(@, [method |-> 1, id |-> ids[i], ok |-> FALSE])])

tries_method2_always(success) == TRUE
tries_method2_never(success) == FALSE

\* Method 2 is tried if Method 1 did not succeed
tries_method2(success) == ~ success

\* Method 2: SetWallpaper with device_name passed as the identifier
method2(ids, os, device_name, wallpaper_path, sofar) ==
    IF ~ tries_method2(sofar.success) THEN sofar
    ELSE IF engine_accepts(ids, os, device_name)
         THEN [success |-> TRUE,
               log |-> Append(sofar.log, [method |-> 2, id |-> device_name, ok |-> TRUE]),
               wallpaper |-> engine_set(ids, sofar.wallpaper, device_name, wallpaper_path)]
    ELSE [sofar EXCEPT !.log = Append(@, [method |-> 2, id |-> device_name, ok |-> FALSE])]

\* set_wallpaper_for_monitor on the engine eng
set_wallpaper_for_monitor(eng, device_name, wallpaper_path) ==
    LET start == [success |-> FALSE, log |-> <<>>, wallpaper |-> eng.wallpaper]
    IN  IF ~ eng.os.cap_ok THEN start
        ELSE method2(eng.ids, eng.os, device_name, wallpaper_path,
                     IF eng.os.count_ok
                     THEN method1(eng.ids, eng.os, device_name, wallpaper_path, 1, start)
                     ELSE start)

\* set_wallpaper_for_monitor_with_fallback: the fallback is commented out
set_wallpaper_for_monitor_with_fallback(eng, device_name, wallpaper_path) ==
    LET r == set_wallpaper_for_monitor(eng, device_name, wallpaper_path)
    IN  IF r.success THEN r ELSE [r EXCEPT !.success = FALSE]


apply_pairs_short_circuit(prof, order, k, acc) ==
    LET step(a, j) ==
            IF ~ a.success THEN a
            ELSE LET r == set_wallpaper_for_monitor_with_fallback(
                              a.eng, order[j], prof[order[j]])
                 IN  [eng |-> [a.eng EXCEPT !.wallpaper = r.wallpaper],
                      calls |-> Append(a.calls,
                                  [device_name |-> order[j], wallpaper_path |-> prof[order[j]],
                                   log |-> r.log, success |-> r.success]),
                      success |-> r.success]
        run[j \in 0..Len(order)] == IF j < k THEN acc ELSE step(run[j - 1], j)
    IN  run[Len(order)]

success_is_last(success, ok) == ok

\* the success flag of apply_profile after one more pair: cleared by a failure
apply_success(success, ok) == success /\ ok

\* the loop of apply_profile over the pairs of the profile from position k on,
\* in the order the HashMap yields them; acc is [eng, calls, success]
RECURSIVE apply_pairs(_, _, _, _)
apply_pairs(prof, order, k, acc) ==
    IF k > Len(order) THEN acc
    ELSE LET r == set_wallpaper_for_monitor_with_fallback(
                      acc.eng, order[k], prof[order[k]])
         IN  apply_pairs(prof, order, k + 1,
                 [eng |-> [acc.eng EXCEPT !.wallpaper = r.wallpaper],
                  calls |-> Append(acc.calls,
                              [device_name |-> order[k], wallpaper_path |-> prof[order[k]],
                               log |-> r.log, success |-> r.success]),
                  success |-> apply_success(acc.success, r.success)])

\* the orders in which a HashMap may yield the keys S
Orders(S) ==
    {o \in [1..Cardinality(S) -> S] : \A i, j \in 1..Cardinality(S) : o[i] = o[j] => i = j}

apply_profile(profile_name, order) ==
    /\ op' = "apply_profile"
    /\ args' = [profile_name |-> profile_name]
    /\ IF profile_name \in DOMAIN profiles
       THEN LET r == apply_pairs(profiles[profile_name], order, 1,
                                 [eng |-> engine, calls |-> <<>>, success |-> TRUE])
            IN  /\ ret' = r.success
                /\ calls' = r.calls
                /\ engine' = r.eng
       ELSE /\ ret' = FALSE
            /\ calls' = <<>>
            /\ engine' = engine
    /\ UNCHANGED <<starting, monitors, profiles, schedule, scheduler_running, tasks, clock, file>>

-----------------------------------------------------------------------------
(* The Wallpaper Setter under apply_profile, for each way the OS may answer *)

MaxMonitors == 2    \* monitors the engine reports
MaxAssign == 2      \* assignments of the applied profile

Digits == <<"0", "1", "2", "3", "4", "5", "6", "7", "8", "9">>

\* the engine's identifier of its k-th monitor
EngineId(k) == <<"M", "#", Digits[k + 1]>>

Bogus == <<"z">>                        \* matches no identifier
Part == <<"#">>                         \* contained in every identifier
Long == EngineId(2) \o <<"x">>          \* contains the second identifier

SetterDevices == {EngineId(k) : k \in 1..MaxMonitors} \cup {Bogus, Part, Long}

WallpaperFor(d) == d \o <<".", "p", "n", "g">>
OldWallpaper == <<"o", ".", "p", "n", "g">>

Applied == <<"p">>
Absent == <<"q">>

SetterInit ==
    /\ \E n \in 0..MaxMonitors :
       \E os \in OsStates(n) :
          engine = [ids |-> [k \in 1..n |-> EngineId(k)],
                    wallpaper |-> [k \in 1..n |-> OldWallpaper],
                    os |-> os]
    /\ monitors = engine.ids
    /\ \E S \in SUBSET SetterDevices :
          /\ Cardinality(S) <= MaxAssign
          /\ profiles = [n \in {Applied} |-> [d \in S |-> WallpaperFor(d)]]
    /\ schedule = <<>>
    /\ scheduler_running = FALSE
    /\ tasks = <<>>
    /\ starting = {}
    /\ clock = 0
    /\ file = NoFile
    /\ op = "new"
    /\ args = <<>>
    /\ ret = TRUE
    /\ calls = <<>>

SetterNext ==
    \E n \in {Applied, Absent} :
        \E order \in Orders(IF n \in DOMAIN profiles THEN DOMAIN profiles[n] ELSE {}) :
            apply_profile(n, order)

SetterSpec == SetterInit /\ [][SetterNext]_vars

-----------------------------------------------------------------------------
\* the last operation was apply_profile on a profile of the store
AppliedExisting == op = "apply_profile" /\ args.profile_name \in DOMAIN profiles

(* C4: apply_profile on an existing profile with N assignments invokes the
   Wallpaper Setter exactly N times, once for each (device, path) pair of the
   profile, whichever of the invocations fail. *)
C4_AllPairsAttempted ==
    AppliedExisting =>
        LET prof == profiles[args.profile_name]
        IN  /\ Len(calls) = Cardinality(DOMAIN prof)
            /\ {<<calls[i].device_name, calls[i].wallpaper_path>> : i \in 1..Len(calls)}
                 = {<<d, prof[d]>> : d \in DOMAIN prof}

\* the first pair failed and the second was attempted, and succeeded
C4_Witness ==
    /\ AppliedExisting
    /\ Len(calls) = 2
    /\ ~ calls[1].success
    /\ calls[2].success

(* C5: apply_profile on an absent profile returns false and invokes the
   Wallpaper Setter not at all; on an existing profile it returns the
   conjunction of the results of its invocations. *)
C5_ApplyResult ==
    op = "apply_profile" =>
        IF args.profile_name \in DOMAIN profiles
        THEN ret = (\A i \in 1..Len(calls) : calls[i].success)
        ELSE ret = FALSE /\ calls = <<>>

\* the first of two pairs failed, the last was set, and apply_profile returned false
C5_Witness ==
    /\ AppliedExisting
    /\ Len(calls) = 2
    /\ ~ calls[1].success
    /\ calls[2].success
    /\ ret = FALSE
    /\ calls[2].wallpaper_path \in {engine.wallpaper[k] : k \in 1..Len(engine.wallpaper)}

(* C6: when the Wallpaper Setter is invoked with the engine identifier of
   monitor k as the device_name and the engine answers every call with
   success, then afterwards the wallpaper of monitor k is the given path and
   the wallpaper of every other monitor is what it was. *)
C6_OnlyTargetChanged ==
    [][ (/\ op' = "apply_profile"
         /\ Len(calls') = 1
         /\ engine.os = AllFine
         /\ \E k \in 1..Len(engine.ids) : engine.ids[k] = calls'[1].device_name)
        => \A k \in 1..Len(engine.ids) :
              engine'.wallpaper[k] =
                  IF engine.ids[k] = calls'[1].device_name
                  THEN calls'[1].wallpaper_path
                  ELSE engine.wallpaper[k] ]_vars

(* C7: in one invocation of the Wallpaper Setter no SetWallpaper call is
   issued after a SetWallpaper call that succeeded: every call but the last
   one of the invocation failed. *)
C7_NoCallAfterSuccess ==
    op = "apply_profile" =>
        \A i \in 1..Len(calls) :
            \A j \in 1..(Len(calls[i].log) - 1) : ~ calls[i].log[j].ok

\* the device name is contained in both identifiers; the first call succeeded
\* and the second identifier was not tried
C7_Witness ==
    /\ AppliedExisting
    /\ Len(engine.ids) = 2
    /\ Len(calls) = 1
    /\ calls[1].device_name = Part
    /\ calls[1].log = <<[method |-> 1, id |-> EngineId(1), ok |-> TRUE]>>

(* C8: an invocation of the Wallpaper Setter returns true exactly if one of
   the SetWallpaper calls it issued succeeded, and it issues the direct call
   (device_name as the identifier) exactly if the capability was created and
   no call of the identifier loop succeeded. *)
C8_SetterResult ==
    AppliedExisting =>
        \A i \in 1..Len(calls) :
            LET log == calls[i].log
            IN  /\ calls[i].success = (\E j \in 1..Len(log) : log[j].ok)
                /\ (\E j \in 1..Len(log) : log[j].method = 2)
                     = (engine.os.cap_ok /\ ~ \E j \in 1..Len(log) : log[j].method = 1 /\ log[j].ok)
                /\ Cardinality({j \in 1..Len(log) : log[j].method = 2}) <= 1

\* a call of the identifier loop failed and the direct call then succeeded
C8_Witness ==
    /\ AppliedExisting
    /\ Len(calls) = 1
    /\ Len(calls[1].log) = 2
    /\ calls[1].log[1] = [method |-> 1, id |-> EngineId(1), ok |-> FALSE]
    /\ calls[1].log[2] = [method |-> 2, id |-> EngineId(2), ok |-> TRUE]
    /\ calls[1].success

-----------------------------------------------------------------------------
(* Scheduler *)

PollSecs == 30          \* thread::sleep at the end of each poll
DebounceSecs == 60      \* thread::sleep after a firing entry
MaxTasks == 2           \* threads spawned in a run of the model
MaxSched == 2           \* entries of the schedule list
DayMinutes == 3         \* minutes after which the modelled wall clock wraps
MaxSince == 3           \* poll intervals counted after a stop

\* The clock advances in ticks of one poll interval.
PollTicks == 1
DebounceTicks == DebounceSecs \div PollSecs
DayTicks == (DayMinutes * 60) \div PollSecs
MinuteTicks == 60 \div PollSecs

\* now.hour() and now.minute() of Local::now()
current_hour == ((clock * PollSecs) \div 3600) % 24
current_minute == ((clock * PollSecs) \div 60) % 60

\* the test of a snapshot entry against the time read at the poll
fires(entry, hour, minute) ==
    entry.enabled /\ entry.hour = hour /\ entry.minute = minute

Alive(t) == tasks[t].pc # "exited"

\* an add_schedule that puts the new entry in front of the list
add_schedule_front(profile_name, hour, minute) ==
    /\ op' = "add_schedule"
    /\ args' = [profile_name |-> profile_name, hour |-> hour, minute |-> minute]
    /\ IF profile_name \notin DOMAIN profiles \/ hour > 23 \/ minute > 59
       THEN /\ ret' = FALSE
            /\ schedule' = schedule
       ELSE /\ ret' = TRUE
            /\ schedule' = <<[profile_name |-> profile_name, hour |-> hour,
                              minute |-> minute, enabled |-> TRUE]>> \o schedule
    /\ UNCHANGED <<starting, monitors, profiles, scheduler_running, tasks, clock, engine, file, calls>>

\* add_schedule: refused for an unknown profile or a time out of range, else
\* one enabled entry is pushed
add_schedule(profile_name, hour, minute) ==
    /\ op' = "add_schedule"
    /\ args' = [profile_name |-> profile_name, hour |-> hour, minute |-> minute]
    /\ IF profile_name \notin DOMAIN profiles \/ hour > 23 \/ minute > 59
       THEN /\ ret' = FALSE
            /\ schedule' = schedule
       ELSE /\ ret' = TRUE
            /\ schedule' = Append(schedule,
                              [profile_name |-> profile_name, hour |-> hour,
                               minute |-> minute, enabled |-> TRUE])
    /\ UNCHANGED <<starting, monitors, profiles, scheduler_running, tasks, clock, engine, file, calls>>

\* a start_scheduler without the test of the flag
start_scheduler_respawn ==
    /\ op' = "start_scheduler"
    /\ args' = <<>>
    /\ ret' = TRUE
    /\ Len(tasks) < MaxTasks
    /\ scheduler_running' = TRUE
    /\ tasks' = Append([t \in 1..Len(tasks) |-> [tasks[t] EXCEPT !.since_stop = -1]],
                  [pc |-> "poll", snapshot |-> schedule, idx |-> 1,
                   hour |-> 0, minute |-> 0, left |-> 0, after |-> "poll",
                   stopped |-> FALSE, whole |-> FALSE, signalled |-> {},
                   since_stop |-> -1])
    /\ UNCHANGED <<starting, monitors, profiles, schedule, clock, engine, file, calls>>

\* start_scheduler: a no-op if the flag is set; else it sets the flag and
\* spawns a thread that owns a clone of the schedule
start_scheduler ==
    /\ op' = "start_scheduler"
    /\ args' = <<>>
    /\ ret' = TRUE
    /\ IF scheduler_running
       THEN UNCHANGED <<scheduler_running, tasks>>
       ELSE /\ Len(tasks) < MaxTasks
            /\ scheduler_running' = TRUE
            /\ tasks' = Append([t \in 1..Len(tasks) |-> [tasks[t] EXCEPT !.since_stop = -1]],
                          [pc |-> "poll", snapshot |-> schedule, idx |-> 1,
                           hour |-> 0, minute |-> 0, left |-> 0, after |-> "poll",
                           stopped |-> FALSE, whole |-> FALSE, signalled |-> {},
                           since_stop |-> -1])
    /\ UNCHANGED <<starting, monitors, profiles, schedule, clock, engine, file, calls>>

\* stop_scheduler: a no-op if the flag is clear; else it clears the flag.
\* Four fields of a thread record its history and are read by no step of
\* the program: stopped marks the threads that were alive when the flag was
\* cleared, whole the threads that were alive when the current minute of the
\* clock began, signalled the snapshot entries the thread has signalled since
\* the current minute began, since_stop the polls of time (counted up to
\* MaxSince) since the flag was last cleared under a live thread, and -1 once
\* a later start has set the flag again or if there was no such stop.
stop_scheduler ==
    /\ op' = "stop_scheduler"
    /\ args' = <<>>
    /\ ret' = TRUE
    /\ IF ~ scheduler_running
       THEN UNCHANGED <<scheduler_running, tasks>>
       ELSE /\ scheduler_running' = FALSE
            /\ tasks' = [t \in 1..Len(tasks) |->
                           IF Alive(t) THEN [tasks[t] EXCEPT !.stopped = TRUE, !.since_stop = 0]
                           ELSE tasks[t]]
    /\ UNCHANGED <<starting, monitors, profiles, schedule, clock, engine, file, calls>>

\* the poll boundary of thread t: the while condition loads the flag; if it is
\* set the thread reads the clock, else the thread ends
task_poll(t) ==
    /\ tasks[t].pc = "poll"
    /\ tasks' = IF scheduler_running
                THEN [tasks EXCEPT ![t].pc = "scan", ![t].idx = 1,
                                   ![t].hour = current_hour, ![t].minute = current_minute]
                ELSE [tasks EXCEPT ![t].pc = "exited"]
    /\ op' = "task_step"
    /\ args' = <<>>
    /\ UNCHANGED <<starting, monitors, profiles, schedule, scheduler_running, clock, engine, file,
                   ret, calls>>

\* a scan that reads the schedule list of the manager instead of its clone
task_scan_live(t) ==
    /\ tasks[t].pc = "scan"
    /\ LET tk == tasks[t]
           hits == {j \in tk.idx..Len(schedule) : fires(schedule[j], tk.hour, tk.minute)}
       IN  IF hits # {}
           THEN /\ op' = "signal"
                /\ args' = [task |-> t, entry |-> Min(hits),
                            profile_name |-> schedule[Min(hits)].profile_name]
                /\ tasks' = [tasks EXCEPT ![t].pc = "sleep", ![t].left = DebounceTicks,
                                          ![t].after = "scan", ![t].idx = Min(hits) + 1,
                                          ![t].signalled = @ \cup {Min(hits)}]
           ELSE /\ op' = "task_step"
                /\ args' = <<>>
                /\ tasks' = [tasks EXCEPT ![t].pc = "sleep", ![t].left = PollTicks,
                                          ![t].after = "poll", ![t].idx = 1]
    /\ UNCHANGED <<starting, monitors, profiles, schedule, scheduler_running, clock, engine, file,
                   ret, calls>>

\* a scan that invokes the setter for the profile of a firing entry
task_scan_applying(t) ==
    /\ tasks[t].pc = "scan"
    /\ LET tk == tasks[t]
           hits == {j \in tk.idx..Len(tk.snapshot) : fires(tk.snapshot[j], tk.hour, tk.minute)}
       IN  IF hits # {}
           THEN /\ op' = "signal"
                /\ args' = [task |-> t, entry |-> Min(hits),
                            profile_name |-> tk.snapshot[Min(hits)].profile_name]
                /\ tasks' = [tasks EXCEPT ![t].pc = "sleep", ![t].left = DebounceTicks,
                                          ![t].after = "scan", ![t].idx = Min(hits) + 1,
                                          ![t].signalled = @ \cup {Min(hits)}]
           ELSE /\ op' = "task_step"
                /\ args' = <<>>
                /\ tasks' = [tasks EXCEPT ![t].pc = "sleep", ![t].left = PollTicks,
                                          ![t].after = "poll", ![t].idx = 1]
    /\ calls' = IF op' = "signal" THEN Append(calls, args'.profile_name) ELSE calls
    /\ UNCHANGED <<starting, monitors, profiles, schedule, scheduler_running, clock, engine, file,
                   ret>>

\* a scan without the sleep after a firing entry
task_scan_no_debounce(t) ==
    /\ tasks[t].pc = "scan"
    /\ LET tk == tasks[t]
           hits == {j \in tk.idx..Len(tk.snapshot) : fires(tk.snapshot[j], tk.hour, tk.minute)}
       IN  IF hits # {}
           THEN /\ op' = "signal"
                /\ args' = [task |-> t, entry |-> Min(hits),
                            profile_name |-> tk.snapshot[Min(hits)].profile_name]
                /\ tasks' = [tasks EXCEPT ![t].pc = "sleep", ![t].left = 0,
                                          ![t].after = "scan", ![t].idx = Min(hits) + 1,
                                          ![t].signalled = @ \cup {Min(hits)}]
           ELSE /\ op' = "task_step"
                /\ args' = <<>>
                /\ tasks' = [tasks EXCEPT ![t].pc = "sleep", ![t].left = PollTicks,
                                          ![t].after = "poll", ![t].idx = 1]
    /\ UNCHANGED <<starting, monitors, profiles, schedule, scheduler_running, clock, engine, file,
                   ret, calls>>

\* the for loop of thread t from entry idx on, up to its next sleep: 60 s
\* inside the loop after the next entry that fires, or 30 s after the loop
task_scan(t) ==
    /\ tasks[t].pc = "scan"
    /\ LET tk == tasks[t]
           hits == {j \in tk.idx..Len(tk.snapshot) : fires(tk.snapshot[j], tk.hour, tk.minute)}
       IN  IF hits # {}
           THEN /\ op' = "signal"
                /\ args' = [task |-> t, entry |-> Min(hits),
                            profile_name |-> tk.snapshot[Min(hits)].profile_name]
                /\ tasks' = [tasks EXCEPT ![t].pc = "sleep", ![t].left = DebounceTicks,
                                          ![t].after = "scan", ![t].idx = Min(hits) + 1,
                                          ![t].signalled = @ \cup {Min(hits)}]
           ELSE /\ op' = "task_step"
                /\ args' = <<>>
                /\ tasks' = [tasks EXCEPT ![t].pc = "sleep", ![t].left = PollTicks,
                                          ![t].after = "poll", ![t].idx = 1]
    /\ UNCHANGED <<starting, monitors, profiles, schedule, scheduler_running, clock, engine, file,
                   ret, calls>>

\* thread::sleep of thread t returns
task_wake(t) ==
    /\ tasks[t].pc = "sleep"
    /\ tasks[t].left = 0
    /\ tasks' = [tasks EXCEPT ![t].pc = tasks[t].after]
    /\ op' = "task_step"
    /\ args' = <<>>
    /\ UNCHANGED <<starting, monitors, profiles, schedule, scheduler_running, clock, engine, file,
                   ret, calls>>

\* the history count since_stop after one more poll interval
aged(n) == IF n < 0 \/ n >= MaxSince THEN n ELSE n + 1

\* one poll interval passes: every thread is asleep with time left to sleep
tick ==
    /\ \A t \in 1..Len(tasks) : Alive(t) => tasks[t].pc = "sleep" /\ tasks[t].left > 0
    /\ clock' = (clock + 1) % DayTicks
    /\ tasks' = [t \in 1..Len(tasks) |->
                   IF ~ Alive(t) THEN tasks[t]
                   ELSE IF ((clock + 1) % DayTicks) % MinuteTicks = 0
                        THEN [tasks[t] EXCEPT !.left = @ - 1, !.whole = TRUE,
                                              !.signalled = {},
                                              !.since_stop = aged(@)]
                        ELSE [tasks[t] EXCEPT !.left = @ - 1, !.since_stop = aged(@)]]
    /\ op' = "tick"
    /\ args' = <<>>
    /\ UNCHANGED <<starting, monitors, profiles, schedule, scheduler_running, engine, file,
                   ret, calls>>

-----------------------------------------------------------------------------
(* The Scheduler under start, stop and add_schedule of one foreground *)

SchedProfile == <<"a">>
SchedMinutes == {1, 2}

SchedInit ==
    /\ monitors = <<>>
    /\ profiles = [n \in {SchedProfile} |-> EmptyMap]
    /\ schedule = <<>>
    /\ scheduler_running = FALSE
    /\ tasks = <<>>
    /\ starting = {}
    /\ clock = 0
    /\ engine = NoEngine
    /\ file = NoFile
    /\ op = "new"
    /\ args = <<>>
    /\ ret = TRUE
    /\ calls = <<>>

TaskNext == \E t \in 1..Len(tasks) : task_poll(t) \/ task_scan(t) \/ task_wake(t)

SchedNext ==
    \/ start_scheduler
    \/ stop_scheduler
    \/ \E m \in SchedMinutes : Len(schedule) < MaxSched /\ add_schedule(SchedProfile, 0, m)
    \/ \E t \in 1..Len(tasks) : task_poll(t)
    \/ \E t \in 1..Len(tasks) : task_scan(t)
    \/ \E t \in 1..Len(tasks) : task_wake(t)
    \/ tick

SchedSpec == SchedInit /\ [][SchedNext]_vars

\* the threads run and time passes; the foreground may stop calling
SchedFairSpec == SchedSpec /\ WF_vars(TaskNext) /\ WF_vars(tick)

(* C1: with start_scheduler and stop_scheduler called one after another by
   one foreground, interleaved in any way with the steps of the threads, at
   most one scheduler thread is alive. *)
C1_AtMostOneTask ==
    Cardinality({t \in 1..Len(tasks) : Alive(t)}) <= 1

(* C2: a thread that was running when stop_scheduler cleared the run-flag
   eventually sees the cleared flag at a poll boundary and exits, whatever
   the foreground calls afterwards. *)
C2_StoppedTaskExits ==
    \A t \in 1..MaxTasks :
        (t <= Len(tasks) /\ tasks[t].stopped)
            ~> (t <= Len(tasks) /\ tasks[t].pc = "exited")

(* C14: a thread that has been running since the current minute of the
   clock began, and was not stopped, has signalled every enabled entry of
   its snapshot scheduled for the current hour and minute once one poll
   interval of the minute has passed and the thread is asleep again. *)
C14_SignalledWithinPoll ==
    \A t \in 1..Len(tasks) :
        (/\ Alive(t) /\ tasks[t].whole /\ ~ tasks[t].stopped
         /\ clock % MinuteTicks >= PollTicks
         /\ tasks[t].pc = "sleep" /\ tasks[t].left > 0)
        => \A j \in 1..Len(tasks[t].snapshot) :
              fires(tasks[t].snapshot[j], current_hour, current_minute)
                  => j \in tasks[t].signalled

(* C23: a thread emits a signal for an entry only if the entry is enabled
   and the hour and minute of the clock at the moment of the signal are the
   entry's hour and minute. *)
C23_SignalAtOwnTime ==
    [][ op' = "signal"
        => LET entry == tasks[args'.task].snapshot[args'.entry]
           IN  /\ entry.enabled
               /\ entry.hour = current_hour
               /\ entry.minute = current_minute ]_vars

(* C25: once the flag has been cleared under a live thread and no later
   start has set it again, the thread is gone before a second poll interval
   has passed since the stop, whatever the thread was doing at the stop. *)
C25_ExitsWithinPoll ==
    \A t \in 1..Len(tasks) :
        (Alive(t) /\ tasks[t].since_stop >= 0) => tasks[t].since_stop <= PollTicks

\* start and stop alone, beside the threads and the clock: the schedule list
\* stays empty
FlagNext ==
    \/ start_scheduler
    \/ stop_scheduler
    \/ \E t \in 1..Len(tasks) : task_poll(t)
    \/ \E t \in 1..Len(tasks) : task_scan(t)
    \/ \E t \in 1..Len(tasks) : task_wake(t)
    \/ tick

FlagSpec == SchedInit /\ [][FlagNext]_vars

(* C12: start_scheduler called while the run-flag is set spawns no thread,
   leaves the flag set and returns normally; stop_scheduler called while the
   flag is clear, also when no thread was ever started, leaves the flag
   clear and returns normally; both leave all other state as it was. *)
C12_NoOpWhenAlreadyThere ==
    [][ /\ (op' = "start_scheduler" /\ scheduler_running)
              => /\ scheduler_running' = TRUE
                 /\ ret' = TRUE
                 /\ UNCHANGED <<tasks, schedule, profiles, monitors, clock, engine, file>>
        /\ (op' = "stop_scheduler" /\ ~ scheduler_running)
              => /\ scheduler_running' = FALSE
                 /\ ret' = TRUE
                 /\ UNCHANGED <<tasks, schedule, profiles, monitors, clock, engine, file>> ]_vars

\* start_scheduler has just returned with the flag set, and the only thread
\* was never stopped and has already left the poll it was spawned at: the
\* call was made while Running
C12_Witness ==
    /\ op = "start_scheduler"
    /\ scheduler_running
    /\ Len(tasks) = 1
    /\ ~ tasks[1].stopped
    /\ tasks[1].pc = "sleep"

-----------------------------------------------------------------------------
(* start_scheduler called from several threads.  WallpaperManager derives
   Clone and its scheduler_running field is a public Arc, so the managers of
   different threads can share one run-flag; the load and the store of the
   flag in start_scheduler are two atomic operations with code between. *)

MaxCallers == 2         \* threads that call start_scheduler

\* the threads whose managers share the run-flag
Callers == 1..MaxCallers

\* a load that sets the flag in the same atomic operation (a swap)
start_load_swap(c) ==
    /\ c \notin starting
    /\ op' = "start_scheduler"
    /\ args' = [caller |-> c]
    /\ ret' = TRUE
    /\ scheduler_running' = TRUE
    /\ starting' = IF scheduler_running THEN starting ELSE starting \cup {c}
    /\ UNCHANGED <<monitors, profiles, schedule, tasks, clock, engine, file, calls>>

\* the first step of start_scheduler in thread c: it loads the flag and
\* returns if the flag is set
start_load(c) ==
    /\ c \notin starting
    /\ op' = "start_scheduler"
    /\ args' = [caller |-> c]
    /\ ret' = TRUE
    /\ starting' = IF scheduler_running THEN starting ELSE starting \cup {c}
    /\ UNCHANGED <<monitors, profiles, schedule, scheduler_running, tasks, clock,
                   engine, file, calls>>

\* the rest of start_scheduler in thread c: it stores true, clones the
\* schedule and spawns the thread
start_spawn(c) ==
    /\ c \in starting
    /\ Len(tasks) < MaxTasks
    /\ op' = "start_scheduler"
    /\ args' = [caller |-> c]
    /\ ret' = TRUE
    /\ scheduler_running' = TRUE
    /\ starting' = starting \ {c}
    /\ tasks' = Append([t \in 1..Len(tasks) |-> [tasks[t] EXCEPT !.since_stop = -1]],
                  [pc |-> "poll", snapshot |-> schedule, idx |-> 1,
                   hour |-> 0, minute |-> 0, left |-> 0, after |-> "poll",
                   stopped |-> FALSE, whole |-> FALSE, signalled |-> {},
                   since_stop |-> -1])
    /\ UNCHANGED <<monitors, profiles, schedule, clock, engine, file, calls>>

\* start calls alone, beside the threads and the clock: no stop, so the flag
\* is never cleared
RaceNext ==
    \/ \E c \in Callers : start_load(c)
    \/ \E c \in Callers : start_spawn(c)
    \/ \E t \in 1..Len(tasks) : task_poll(t)
    \/ \E t \in 1..Len(tasks) : task_scan(t)
    \/ \E t \in 1..Len(tasks) : task_wake(t)
    \/ tick

RaceSpec == SchedInit /\ [][RaceNext]_vars

(* C26: start_scheduler reads the run-flag and writes it in two steps: the
   step in which a call finds the flag clear leaves the flag clear and
   spawns nothing, and the call sets the flag and spawns its thread in a
   later step, whatever other calls did in between; so two calls can both
   find the flag clear and both spawn (the witness: two live threads,
   where the flag was never cleared). *)
C26_LoadThenStore ==
    [][ \A c \in Callers :
          /\ (c \notin starting /\ c \in starting')
                => /\ ~ scheduler_running
                   /\ scheduler_running' = scheduler_running
                   /\ tasks' = tasks
          /\ (c \in starting /\ c \notin starting')
                => /\ scheduler_running'
                   /\ Len(tasks') = Len(tasks) + 1
                   /\ tasks'[Len(tasks')].pc = "poll" ]_vars

C26_Witness ==
    /\ Len(tasks) = 2
    /\ starting = {}
    /\ scheduler_running
    /\ \A t \in 1..2 : Alive(t) /\ tasks[t].pc = "sleep"

-----------------------------------------------------------------------------
(* Config Codec *)

\* a string literal of the code, character by character
SectionProfiles == <<"P", "R", "O", "F", "I", "L", "E", "S">>
SectionSchedule == <<"S", "C", "H", "E", "D", "U", "L", "E">>
ProfilePrefix == <<"P", "R", "O", "F", "I", "L", "E", ":">>
Indent == <<" ", " ">>

\* the value of a decimal digit, -1 for any other character
DigitValue(c) ==
    IF \E v \in 0..9 : Digits[v + 1] = c
    THEN CHOOSE v \in 0..9 : Digits[v + 1] = c
    ELSE -1

\* "{}" of a u32
RECURSIVE format_u32(_)
format_u32(n) ==
    IF n < 10 THEN <<Digits[n + 1]>> ELSE format_u32(n \div 10) \o <<Digits[(n % 10) + 1]>>

\* the value of a non-empty string of digits (of at most nine digits)
RECURSIVE digits_value(_)
digits_value(s) ==
    IF Len(s) = 1 THEN DigitValue(s[1])
    ELSE 10 * digits_value(SubSeq(s, 1, Len(s) - 1)) + DigitValue(s[Len(s)])

AllDigits(s) == s # <<>> /\ \A i \in 1..Len(s) : DigitValue(s[i]) >= 0

\* str::parse::<u32> as a set, empty for Err: an optional '+', then digits
parse_u32(s) ==
    LET body == IF s # <<>> /\ s[1] = "+" THEN Drop(s, 2) ELSE s
    IN  IF AllDigits(body) THEN {digits_value(body)} ELSE {}

\* str::parse::<i32> as a set, empty for Err: an optional sign, then digits
parse_i32(s) ==
    LET signed == s # <<>> /\ (s[1] = "+" \/ s[1] = "-")
        body == IF signed THEN Drop(s, 2) ELSE s
    IN  IF ~ AllDigits(body) THEN {}
        ELSE IF signed /\ s[1] = "-" THEN {0 - digits_value(body)}
        ELSE {digits_value(body)}

\* str::split(c): the pieces of s between the occurrences of c
RECURSIVE split(_, _)
split(s, c) ==
    IF Positions(s, c) = {} THEN <<s>>
    ELSE LET cut == Min(Positions(s, c))
         IN  <<SubSeq(s, 1, cut - 1)>> \o split(Drop(s, cut + 1), c)

\* BufRead::lines: the pieces between line feeds, without a final empty piece,
\* each without a carriage return at its end
lines_of(text) ==
    LET pieces == split(text, "\n")
        kept == IF pieces[Len(pieces)] = <<>> THEN SubSeq(pieces, 1, Len(pieces) - 1)
                ELSE pieces
    IN  [i \in 1..Len(kept) |->
            IF EndsWith(kept[i], <<"\r">>) THEN SubSeq(kept[i], 1, Len(kept[i]) - 1)
            ELSE kept[i]]

RECURSIVE Flatten(_)
Flatten(ss) == IF ss = <<>> THEN <<>> ELSE ss[1] \o Flatten(Tail(ss))

\* the lines save_config writes for the profiles, for an order of the
\* profile names and an order of the devices of each profile
profile_lines(profs, names, devs) ==
    Flatten([i \in 1..Len(names) |->
        <<ProfilePrefix \o names[i]>> \o
        [j \in 1..Len(devs[names[i]]) |->
            Indent \o devs[names[i]][j] \o <<"=">> \o profs[names[i]][devs[names[i]][j]]]])

\* the lines save_config writes for the schedule
schedule_lines(sched) ==
    [i \in 1..Len(sched) |->
        sched[i].profile_name \o <<",">> \o format_u32(sched[i].hour) \o <<",">>
        \o format_u32(sched[i].minute) \o <<",">>
        \o (IF sched[i].enabled THEN <<"1">> ELSE <<"0">>)]

\* all the lines save_config writes
config_lines(profs, sched, names, devs) ==
    <<(<<"[">> \o SectionProfiles \o <<"]">>)>> \o profile_lines(profs, names, devs)
    \o <<(<<"[">> \o SectionSchedule \o <<"]">>)>> \o schedule_lines(sched)

\* writeln! of each line
text_of(lines) == Flatten([i \in 1..Len(lines) |-> lines[i] \o <<"\n">>])

\* save_config: create_ok is whether File::create succeeds, written the number
\* of lines written before a write fails (all of them if none fails)
save_config(names, devs, create_ok, written) ==
    LET lines == config_lines(profiles, schedule, names, devs)
    IN  /\ written \in 0..Len(lines)
        /\ op' = "save_config"
        /\ args' = <<>>
        /\ IF ~ create_ok
           THEN ret' = FALSE /\ file' = file
           ELSE /\ ret' = (written = Len(lines))
                /\ file' = [exists |-> TRUE, text |-> text_of(SubSeq(lines, 1, written))]
        /\ UNCHANGED <<starting, monitors, profiles, schedule, scheduler_running, tasks, clock,
                       engine, calls>>

\* the guard of a device line: a profile line came before it
has_current_profile(current_profile) == current_profile # <<>>

\* a loop body that gives up the section at a schedule line it cannot parse
parse_line_abort(st, line) ==
    IF line = <<>> THEN st
    ELSE IF StartsWith(line, <<"[">>) /\ EndsWith(line, <<"]">>)
         THEN [st EXCEPT !.section = SubSeq(line, 2, Len(line) - 1)]
    ELSE IF st.section = SectionProfiles
         THEN IF StartsWith(line, ProfilePrefix)
              THEN LET name == Drop(line, 9)
                   IN  [st EXCEPT !.current_profile = name,
                                  !.profiles = [n \in (DOMAIN st.profiles) \cup {name} |->
                                                  IF n = name THEN EmptyMap ELSE st.profiles[n]]]
              ELSE IF StartsWith(line, Indent) /\ has_current_profile(st.current_profile)
                      /\ Positions(line, "=") # {}
                   THEN LET eq_pos == Min(Positions(line, "="))
                            device == SubSeq(line, 3, eq_pos - 1)
                            wallpaper == Drop(line, eq_pos + 1)
                        IN  [st EXCEPT !.profiles[st.current_profile] =
                                            MapInsert(@, device, wallpaper)]
                   ELSE st
    ELSE IF st.section = SectionSchedule
         THEN LET parts == split(line, ",")
              IN  IF Len(parts) = 4 /\ parse_u32(parts[2]) # {} /\ parse_u32(parts[3]) # {}
                     /\ parse_i32(parts[4]) # {}
                  THEN [st EXCEPT !.schedule = Append(@,
                           [profile_name |-> parts[1],
                            hour |-> CHOOSE h \in parse_u32(parts[2]) : TRUE,
                            minute |-> CHOOSE m \in parse_u32(parts[3]) : TRUE,
                            enabled |-> (CHOOSE e \in parse_i32(parts[4]) : TRUE) = 1])]
                  ELSE [st EXCEPT !.section = <<>>]
    ELSE st

\* the body of the loop of load_config for one line; st is
\* [section, current_profile, profiles, schedule]
parse_line(st, line) ==
    IF line = <<>> THEN st
    ELSE IF StartsWith(line, <<"[">>) /\ EndsWith(line, <<"]">>)
         THEN [st EXCEPT !.section = SubSeq(line, 2, Len(line) - 1)]
    ELSE IF st.section = SectionProfiles
         THEN IF StartsWith(line, ProfilePrefix)
              THEN LET name == Drop(line, 9)
                   IN  [st EXCEPT !.current_profile = name,
                                  !.profiles = [n \in (DOMAIN st.profiles) \cup {name} |->
                                                  IF n = name THEN EmptyMap ELSE st.profiles[n]]]
              ELSE IF StartsWith(line, Indent) /\ has_current_profile(st.current_profile)
                      /\ Positions(line, "=") # {}
                   THEN LET eq_pos == Min(Positions(line, "="))
                            device == SubSeq(line, 3, eq_pos - 1)
                            wallpaper == Drop(line, eq_pos + 1)
                        IN  [st EXCEPT !.profiles[st.current_profile] =
                                            MapInsert(@, device, wallpaper)]
                   ELSE st
    ELSE IF st.section = SectionSchedule
         THEN LET parts == split(line, ",")
              IN  IF Len(parts) = 4 /\ parse_u32(parts[2]) # {} /\ parse_u32(parts[3]) # {}
                     /\ parse_i32(parts[4]) # {}
                  THEN [st EXCEPT !.schedule = Append(@,
                           [profile_name |-> parts[1],
                            hour |-> CHOOSE h \in parse_u32(parts[2]) : TRUE,
                            minute |-> CHOOSE m \in parse_u32(parts[3]) : TRUE,
                            enabled |-> (CHOOSE e \in parse_i32(parts[4]) : TRUE) = 1])]
                  ELSE st
    ELSE st

RECURSIVE parse_lines(_, _, _)
parse_lines(st, lines, i) ==
    IF i > Len(lines) THEN st ELSE parse_lines(parse_line(st, lines[i]), lines, i + 1)

\* a load_config that clears the store before it opens the file
load_config_clear_first(open_ok) ==
    /\ op' = "load_config"
    /\ args' = [open_ok |-> open_ok]
    /\ IF ~ (open_ok /\ file.exists)
       THEN ret' = FALSE /\ profiles' = [n \in {} |-> EmptyMap] /\ schedule' = <<>>
       ELSE LET st == parse_lines([section |-> <<>>, current_profile |-> <<>>,
                                   profiles |-> [n \in {} |-> EmptyMap], schedule |-> <<>>],
                                  lines_of(file.text), 1)
            IN  /\ ret' = TRUE
                /\ profiles' = st.profiles
                /\ schedule' = st.schedule
    /\ UNCHANGED <<starting, monitors, scheduler_running, tasks, clock, engine, file, calls>>

\* load_config: open_ok is whether File::open succeeds
load_config(open_ok) ==
    /\ op' = "load_config"
    /\ args' = [open_ok |-> open_ok]
    /\ IF ~ (open_ok /\ file.exists)
       THEN ret' = FALSE /\ UNCHANGED <<profiles, schedule>>
       ELSE LET st == parse_lines([section |-> <<>>, current_profile |-> <<>>,
                                   profiles |-> [n \in {} |-> EmptyMap], schedule |-> <<>>],
                                  lines_of(file.text), 1)
            IN  /\ ret' = TRUE
                /\ profiles' = st.profiles
                /\ schedule' = st.schedule
    /\ UNCHANGED <<starting, monitors, scheduler_running, tasks, clock, engine, file, calls>>

-----------------------------------------------------------------------------
(* The Config Codec under save_config and load_config, from any store *)

MaxNameLen == 1         \* characters of a profile name
MaxProfiles == 2        \* profiles of the store

CodecAlphabet == {"a", ","}
CodecNames == UNION {[1..k -> CodecAlphabet] : k \in 0..MaxNameLen}
CodecDevices == { <<"d">>, <<"e">> }
CodecPath(d) == IF d = <<"d">> THEN <<"w", ".", "p", "n", "g">>
                ELSE <<"=", ".", "P", "N", "G">>

\* the entries add_schedule and load_config can leave for a profile name
CodecEntries(names) ==
    { [profile_name |-> n, hour |-> 7, minute |-> 30, enabled |-> e] :
        n \in names, e \in BOOLEAN }

CodecInit ==
    /\ monitors = << <<"d">>, <<"e">> >>
    /\ \E N \in SUBSET CodecNames :
          /\ Cardinality(N) <= MaxProfiles
          /\ profiles \in [N -> {[d \in S |-> CodecPath(d)] : S \in SUBSET CodecDevices}]
          /\ schedule \in UNION {[1..k -> CodecEntries(N)] : k \in 0..MaxSched}
    /\ scheduler_running = FALSE
    /\ tasks = <<>>
    /\ starting = {}
    /\ clock = 0
    /\ engine = NoEngine
    /\ file = NoFile
    /\ op = "new"
    /\ args = <<>>
    /\ ret = TRUE
    /\ calls = <<>>

\* the order o of all devices, restricted to the devices S
Restrict(o, S) == SelectSeq(o, LAMBDA d : d \in S)

\* the orders in which the HashMaps of the profiles may yield their devices
DeviceOrders ==
    { [n \in DOMAIN profiles |-> Restrict(f[n], DOMAIN profiles[n])] :
        f \in [DOMAIN profiles -> Orders(CodecDevices)] }

\* the number of lines save_config writes
LineCount ==
    2 + Cardinality(DOMAIN profiles) + Len(schedule)
      + Cardinality({<<n, d>> \in (DOMAIN profiles) \X CodecDevices : d \in DOMAIN profiles[n]})

CodecNext ==
    \/ \E names \in Orders(DOMAIN profiles), devs \in DeviceOrders :
          \/ \E w \in 0..LineCount : save_config(names, devs, TRUE, w)
          \/ save_config(names, devs, FALSE, 0)
    \/ \E o \in BOOLEAN : load_config(o)

CodecSpec == CodecInit /\ [][CodecNext]_vars

\* the characters that delimit the parts of the config format
DelimiterChars == {"\n", "\r", "[", "]", ":", "=", ","}

Clean(s) == \A i \in 1..Len(s) : s[i] \notin DelimiterChars

\* no profile name and no device name of the store holds a delimiter
CleanStore ==
    /\ \A n \in DOMAIN profiles : Clean(n) /\ \A d \in DOMAIN profiles[n] : Clean(d)
    /\ \A i \in 1..Len(schedule) : Clean(schedule[i].profile_name)

(* C3: for a store whose profile names and device names hold no newline and
   no delimiter character, a save_config that succeeds followed by a
   load_config of the file yields the same profile names, the same device to
   path mapping for every profile and the same schedule list. *)
C3_RoundTrip ==
    [][ (/\ op = "save_config" /\ ret = TRUE
         /\ op' = "load_config" /\ ret' = TRUE
         /\ CleanStore)
        => (profiles' = profiles /\ schedule' = schedule) ]_vars

(* C16: load_config on a path that cannot be opened, because the file is
   absent or because the open fails, returns false and leaves the profiles,
   the schedule list, the monitor list and the run-flag as they were. *)
C16_LoadFailureKeepsStore ==
    [][ (op' = "load_config" /\ ~ (args'.open_ok /\ file.exists))
        => /\ ret' = FALSE
           /\ UNCHANGED <<profiles, schedule, monitors, scheduler_running>> ]_vars

\* a load_config has just failed on a store that holds a profile with an
\* assignment and a schedule entry
C16_Witness ==
    /\ op = "load_config"
    /\ ret = FALSE
    /\ \E n \in DOMAIN profiles : DOMAIN profiles[n] # {}
    /\ schedule # <<>>

-----------------------------------------------------------------------------
(* The Scheduler beside a foreground that edits the store: create_profile,
   set_wallpaper_in_profile, add_schedule and load_config are called while
   the thread of one start_scheduler runs *)

SchedWallpaper == <<"a", ".", "p", "n", "g">>

\* the one entry of the config file
SchedFileEntry == [profile_name |-> SchedProfile, hour |-> 0, minute |-> 2, enabled |-> TRUE]

\* a config file as save_config writes it: the profile, without assignments,
\* and one schedule entry
SchedFile ==
    [exists |-> TRUE,
     text |-> text_of(config_lines([n \in {SchedProfile} |-> EmptyMap], <<SchedFileEntry>>,
                                   <<SchedProfile>>, [n \in {SchedProfile} |-> <<>>]))]

SchedStoreInit ==
    /\ monitors = <<Display1>>
    /\ profiles = [n \in {} |-> EmptyMap]
    /\ schedule = <<>>
    /\ scheduler_running = FALSE
    /\ tasks = <<>>
    /\ starting = {}
    /\ clock = 0
    /\ engine = NoEngine
    /\ file = SchedFile
    /\ op = "new"
    /\ args = <<>>
    /\ ret = TRUE
    /\ calls = <<>>

SchedStoreNext ==
    \/ create_profile(SchedProfile)
    \/ set_wallpaper_in_profile(SchedProfile, Display1, SchedWallpaper, TRUE)
    \/ load_config(TRUE)
    \/ start_scheduler
    \/ Len(schedule) < MaxSched /\ add_schedule(SchedProfile, 0, 1)
    \/ \E t \in 1..Len(tasks) : task_poll(t)
    \/ \E t \in 1..Len(tasks) : task_scan(t)
    \/ \E t \in 1..Len(tasks) : task_wake(t)
    \/ tick

SchedStoreSpec == SchedStoreInit /\ [][SchedStoreNext]_vars

\* the operations of the foreground that edit the store
StoreEdits == {"add_schedule", "create_profile", "set_wallpaper_in_profile", "load_config"}

(* C13: the snapshot of a thread never changes after the thread is started;
   add_schedule, create_profile, set_wallpaper_in_profile and load_config
   change nothing of any thread; and every signal a thread emits is for an
   entry of its snapshot that is enabled and scheduled for the hour and
   minute the thread read from the clock at its last poll. *)
C13_SnapshotOnly ==
    [][ /\ \A t \in 1..Len(tasks) : tasks'[t].snapshot = tasks[t].snapshot
        /\ op' \in StoreEdits => tasks' = tasks
        /\ op' = "signal" =>
              /\ args'.task \in 1..Len(tasks)
              /\ args'.entry \in 1..Len(tasks[args'.task].snapshot)
              /\ fires(tasks[args'.task].snapshot[args'.entry],
                       tasks[args'.task].hour, tasks[args'.task].minute)
              /\ args'.profile_name = tasks[args'.task].snapshot[args'.entry].profile_name ]_vars

\* a thread has just signalled an entry of its snapshot that the schedule
\* list of the manager no longer holds at that position
C13_Witness ==
    /\ op = "signal"
    /\ \/ args.entry > Len(schedule)
       \/ schedule[args.entry] # tasks[args.task].snapshot[args.entry]

(* C24: a thread signals an entry at most once in an occurrence of the
   entry's minute: no entry that the thread has signalled since the current
   minute began fires again at a later read of the clock in that minute. *)
C24_OncePerMinute ==
    [][ \A t \in 1..Len(tasks) :
          (tasks[t].pc = "poll" /\ tasks'[t].pc = "scan")
          => \A j \in tasks[t].signalled :
                ~ fires(tasks[t].snapshot[j], tasks'[t].hour, tasks'[t].minute) ]_vars

\* a thread is asleep after a firing entry, a new minute has begun since the
\* signal and the thread has not read the clock again yet
C24_Witness ==
    \E t \in 1..Len(tasks) :
        /\ tasks[t].pc = "sleep"
        /\ tasks[t].after = "scan"
        /\ tasks[t].whole
        /\ tasks[t].signalled = {}

(* C15: a step of a scheduler thread, a signal included, leaves the
   wallpaper of every monitor, the profiles, the schedule list and the
   monitor list as they were and makes no invocation of the Wallpaper
   Setter. *)
C15_TaskFrame ==
    [][ op' \in {"task_step", "signal"}
        => UNCHANGED <<engine, profiles, schedule, monitors, calls>> ]_vars

\* a thread has just signalled an entry whose profile has an assignment for
\* a known monitor, and no invocation was made
C15_Witness ==
    /\ op = "signal"
    /\ args.profile_name \in DOMAIN profiles
    /\ DOMAIN profiles[args.profile_name] # {}
    /\ calls = <<>>

-----------------------------------------------------------------------------
(* load_config on any file content, from any store, with add_schedule *)

MaxLines == 3           \* lines of the config file

\* lines a config file may hold: headers, profile lines (one with an empty
\* name), a device line, schedule lines (in range, out of range, with a
\* negative hour, with three fields) and a blank line
LoadLines ==
    { <<"[">> \o SectionProfiles \o <<"]">>,
      <<"[">> \o SectionSchedule \o <<"]">>,
      ProfilePrefix \o <<"a">>,
      ProfilePrefix,
      <<" ", " ", "d", "=", "w">>,
      <<"a", ",", "7", ",", "3", "0", ",", "1">>,
      <<"a", ",", "2", "4", ",", "6", "0", ",", "0">>,
      <<"a", ",", "-", "1", ",", "0", ",", "1">>,
      <<"a", ",", "7", ",", "3", "0">>,
      <<>> }

LoadFiles == UNION {[1..k -> LoadLines] : k \in 0..MaxLines}

\* a profile and a schedule entry that no line of LoadLines names
OldProfile == <<"z">>
OldEntry == [profile_name |-> OldProfile, hour |-> 23, minute |-> 59, enabled |-> TRUE]

LoadInit ==
    /\ monitors = << <<"q">> >>
    /\ \/ profiles = [n \in {} |-> EmptyMap] /\ schedule = <<>>
       \/ /\ profiles = [n \in {OldProfile} |-> [d \in {<<"q">>} |-> OldWallpaper]]
          /\ schedule = <<OldEntry>>
    /\ scheduler_running = FALSE
    /\ tasks = <<>>
    /\ starting = {}
    /\ clock = 0
    /\ engine = NoEngine
    /\ \E lines \in LoadFiles : file = [exists |-> TRUE, text |-> text_of(lines)]
    /\ op = "new"
    /\ args = <<>>
    /\ ret = TRUE
    /\ calls = <<>>

LoadNext ==
    \/ \E o \in BOOLEAN : load_config(o)
    \/ \E n \in {<<"a">>, OldProfile}, h \in {0, 24}, m \in {59, 60} :
          Len(schedule) < MaxSched /\ add_schedule(n, h, m)

LoadSpec == LoadInit /\ [][LoadNext]_vars

\* the lines of the config file
FileLines == lines_of(file.text)

\* line k of L is a section header
Header(L, k) == L[k] # <<>> /\ L[k][1] = "[" /\ L[k][Len(L[k])] = "]"

\* line i of L is a line of the section called name: the last header before
\* it is [name], and it is neither blank nor a header
InSection(L, i, name) ==
    /\ L[i] # <<>>
    /\ ~ Header(L, i)
    /\ \E h \in 1..(i - 1) :
          /\ L[h] = <<"[">> \o name \o <<"]">>
          /\ \A k \in (h + 1)..(i - 1) : ~ Header(L, k)

\* line i of L is a PROFILE:<name> line of the profiles section
ProfileLine(L, i) == InSection(L, i, SectionProfiles) /\ StartsWith(L[i], ProfilePrefix)

\* line i of L is a "  <device>=<path>" line of the profiles section
DeviceLine(L, i) ==
    /\ InSection(L, i, SectionProfiles)
    /\ ~ StartsWith(L[i], ProfilePrefix)
    /\ StartsWith(L[i], Indent)
    /\ Positions(L[i], "=") # {}

\* the profile lines before line i
ProfileLinesBefore(L, i) == {p \in 1..(i - 1) : ProfileLine(L, p)}

\* the name of the profile block that line i is in
BlockName(L, i) == Drop(L[Max(ProfileLinesBefore(L, i))], Len(ProfilePrefix) + 1)

\* line i of L is a schedule line of four fields that parse
ScheduleLine(L, i) ==
    /\ InSection(L, i, SectionSchedule)
    /\ LET parts == split(L[i], ",")
       IN  /\ Len(parts) = 4
           /\ parse_u32(parts[2]) # {}
           /\ parse_u32(parts[3]) # {}
           /\ parse_i32(parts[4]) # {}

\* the entry a schedule line stands for
EntryOfLine(line) ==
    LET parts == split(line, ",")
    IN  [profile_name |-> parts[1],
         hour |-> CHOOSE h \in parse_u32(parts[2]) : TRUE,
         minute |-> CHOOSE m \in parse_u32(parts[3]) : TRUE,
         enabled |-> (1 \in parse_i32(parts[4]))]

\* the positions of the schedule lines of L, in file order
ScheduleLinesOf(L) == SelectSeq([i \in 1..Len(L) |-> i], LAMBDA i : ScheduleLine(L, i))

\* this step is a load_config of a file that opens
LoadsFile == op' = "load_config" /\ args'.open_ok /\ file.exists

(* C17: after load_config on a file that opens, the store holds exactly what
   the lines of the file define and nothing else: its profiles are the names
   of the PROFILE: lines of the profiles section; every assignment it holds
   is written on a device line of the block of its profile, and every device
   line of the last block of a profile gives that profile an assignment for
   its device; its schedule entries are those of the schedule lines, in file
   order. *)
C17_LoadReplacesStore ==
    [][ LoadsFile =>
          LET L == FileLines
              V == ScheduleLinesOf(L)
          IN  /\ \A n \in DOMAIN profiles' :
                    \E i \in 1..Len(L) : ProfileLine(L, i) /\ L[i] = ProfilePrefix \o n
              /\ \A i \in 1..Len(L) :
                    ProfileLine(L, i) => Drop(L[i], Len(ProfilePrefix) + 1) \in DOMAIN profiles'
              /\ \A n \in DOMAIN profiles' : \A d \in DOMAIN profiles'[n] :
                    \E i \in 1..Len(L) :
                        /\ DeviceLine(L, i)
                        /\ ProfileLinesBefore(L, i) # {}
                        /\ BlockName(L, i) = n
                        /\ L[i] = Indent \o d \o <<"=">> \o profiles'[n][d]
              /\ \A i \in 1..Len(L) :
                    (/\ DeviceLine(L, i)
                     /\ ProfileLinesBefore(L, i) # {}
                     /\ \A p \in (i + 1)..Len(L) :
                           ProfileLine(L, p) => L[p] # ProfilePrefix \o BlockName(L, i))
                    => SubSeq(L[i], Len(Indent) + 1, Min(Positions(L[i], "=")) - 1)
                          \in DOMAIN profiles'[BlockName(L, i)]
              /\ Len(schedule') = Len(V)
              /\ \A k \in 1..Len(V) : schedule'[k] = EntryOfLine(L[V[k]]) ]_vars

(* C18: load_config on a file that opens returns true whatever the file
   holds, and the loaded schedule has exactly one entry, in file order, for
   each line of the [SCHEDULE] section that splits on ',' into exactly four
   fields whose hour and minute parse as u32 and whose enabled field parses
   as i32; every other line of the section leaves no trace. *)
C18_ScheduleLinesLoaded ==
    [][ LoadsFile =>
          LET L == FileLines
              V == ScheduleLinesOf(L)
          IN  /\ ret' = TRUE
              /\ Len(schedule') = Len(V)
              /\ \A k \in 1..Len(V) : schedule'[k] = EntryOfLine(L[V[k]]) ]_vars

\* a load has just returned true with one entry, from a file whose schedule
\* section holds a line that is skipped before the line of the entry
C18_Witness ==
    /\ op = "load_config"
    /\ ret = TRUE
    /\ Len(schedule) = 1
    /\ \E i, j \in 1..Len(FileLines) :
          /\ i < j
          /\ InSection(FileLines, i, SectionSchedule)
          /\ ~ ScheduleLine(FileLines, i)
          /\ ScheduleLine(FileLines, j)

(* C19: in every state reached by add_schedule and load_config calls, on
   any file content, every entry of the schedule list has its hour in 0..23
   and its minute in 0..59. *)
C19_TimesInRange ==
    \A i \in 1..Len(schedule) :
        schedule[i].hour \in 0..23 /\ schedule[i].minute \in 0..59

(* C27: add_schedule returns false and leaves the schedule list as it was
   when the named profile does not exist or hour > 23 or minute > 59;
   otherwise it returns true and the new list is the old list, in its order,
   followed by one entry for the arguments with enabled = true. *)
C27_AddSchedule ==
    [][ op' = "add_schedule"
        => IF \/ args'.profile_name \notin DOMAIN profiles
              \/ args'.hour > 23
              \/ args'.minute > 59
           THEN ret' = FALSE /\ schedule' = schedule
           ELSE /\ ret' = TRUE
                /\ Len(schedule') = Len(schedule) + 1
                /\ \A i \in 1..Len(schedule) : schedule'[i] = schedule[i]
                /\ schedule'[Len(schedule')] =
                      [profile_name |-> args'.profile_name, hour |-> args'.hour,
                       minute |-> args'.minute, enabled |-> TRUE] ]_vars

C27_Witness ==
    /\ op = "add_schedule"
    /\ ret = TRUE
    /\ Len(schedule) = 2
    /\ schedule[1] # schedule[2]
    /\ schedule[2].profile_name = args.profile_name
    /\ schedule[2].enabled

-----------------------------------------------------------------------------
(* Monitor Resolver *)

\* the OS device-path prefix \\.\ of a device name
DevicePrefix == <<"\\", "\\", ".", "\\">>

\* str::strip_prefix as a set, empty for None
strip_prefix(s, p) == IF StartsWith(s, p) THEN {Drop(s, Len(p) + 1)} ELSE {}

\* format!("Monitor {}", i + 1), for the position p = i + 1 of the identifier
default_name(p) == <<"M", "o", "n", "i", "t", "o", "r", " ">> \o format_u32(p)

\* a correlation loop without its break: the last matching monitor wins
RECURSIVE display_name_last(_, _, _, _)
display_name_last(monitor_id_str, p, mons, k) ==
    IF k > Len(mons) THEN default_name(p)
    ELSE LET rest == display_name_last(monitor_id_str, p, mons, k + 1)
         IN  IF rest # default_name(p) THEN rest
             ELSE IF \E device_part \in strip_prefix(mons[k], DevicePrefix) :
                        Contains(monitor_id_str, device_part)
                  THEN mons[k]
                  ELSE rest

\* the correlation loop over the monitor list from position k on, for the
\* identifier at position p
RECURSIVE display_name(_, _, _, _)
display_name(monitor_id_str, p, mons, k) ==
    IF k > Len(mons) THEN default_name(p)
    ELSE IF \E device_part \in strip_prefix(mons[k], DevicePrefix) :
               Contains(monitor_id_str, device_part)
         THEN mons[k]
         ELSE display_name(monitor_id_str, p, mons, k + 1)

\* a loop that pushes a pair only for an identifier that a monitor matches
RECURSIVE monitor_ids_matched_only(_, _, _)
monitor_ids_matched_only(eng, mons, p) ==
    IF p > Len(eng.ids) THEN <<>>
    ELSE (IF p \in eng.os.at_fail \/ display_name(eng.ids[p], p, mons, 1) = default_name(p)
          THEN <<>>
          ELSE << <<display_name(eng.ids[p], p, mons, 1), eng.ids[p]>> >>)
         \o monitor_ids_matched_only(eng, mons, p + 1)

\* the pairs pushed for the identifiers from position p on
RECURSIVE monitor_ids_from(_, _, _)
monitor_ids_from(eng, mons, p) ==
    IF p > Len(eng.ids) THEN <<>>
    ELSE (IF p \in eng.os.at_fail THEN <<>>
          ELSE << <<display_name(eng.ids[p], p, mons, 1), eng.ids[p]>> >>)
         \o monitor_ids_from(eng, mons, p + 1)

get_desktop_wallpaper_monitor_ids ==
    /\ op' = "get_desktop_wallpaper_monitor_ids"
    /\ args' = <<>>
    /\ ret' = IF engine.os.cap_ok /\ engine.os.count_ok
              THEN monitor_ids_from(engine, monitors, 1)
              ELSE <<>>
    /\ UNCHANGED <<starting, monitors, profiles, schedule, scheduler_running, tasks, clock, engine,
                   file, calls>>

-----------------------------------------------------------------------------
(* The Monitor Resolver on any monitor list and any engine identifiers *)

MaxKnown == 2           \* monitors of the monitor list

\* device names: two with the prefix, one without it, one that is the prefix
ResolverDevices ==
    { DevicePrefix \o <<"D", "1">>, DevicePrefix \o <<"D", "2">>, <<"D", "1">>, DevicePrefix }

\* identifiers: one that holds D1, one that holds D2 and D1, one that holds neither
ResolverIds == { <<"x", "D", "1">>, <<"D", "2", "D", "1">>, <<"M", "9">> }

ResolverInit ==
    /\ monitors \in UNION {[1..k -> ResolverDevices] : k \in 0..MaxKnown}
    /\ \E n \in 0..MaxMonitors :
          \E ids \in [1..n -> ResolverIds] :
             \E os \in {o \in OsStates(n) : o.reject = {}} :
                engine = [ids |-> ids, wallpaper |-> [k \in 1..n |-> OldWallpaper], os |-> os]
    /\ profiles = [n \in {} |-> EmptyMap]
    /\ schedule = <<>>
    /\ scheduler_running = FALSE
    /\ tasks = <<>>
    /\ starting = {}
    /\ clock = 0
    /\ file = NoFile
    /\ op = "new"
    /\ args = <<>>
    /\ ret = TRUE
    /\ calls = <<>>

ResolverNext == get_desktop_wallpaper_monitor_ids

ResolverSpec == ResolverInit /\ [][ResolverNext]_vars

\* the positions of the identifiers the engine hands out, in order
HandedOut == SelectSeq([p \in 1..Len(engine.ids) |-> p], LAMBDA p : p \notin engine.os.at_fail)

\* the positions of the monitors that match the identifier id: the device
\* name has the prefix and its remainder is a substring of id
Matching(id) ==
    {k \in 1..Len(monitors) :
        /\ StartsWith(monitors[k], DevicePrefix)
        /\ Contains(id, Drop(monitors[k], Len(DevicePrefix) + 1))}

(* C20: for each identifier the engine hands out, at position p (the code's
   index p - 1), the resolver returns the identifier with, as display_name,
   the device name of the first monitor of the monitor list whose device
   name has the device-path prefix and, without it, is a substring of the
   identifier; and with "Monitor p" when there is no such monitor. *)
C20_FirstMatchWins ==
    (op = "get_desktop_wallpaper_monitor_ids" /\ engine.os.cap_ok /\ engine.os.count_ok)
    => /\ Len(ret) = Len(HandedOut)
       /\ \A j \in 1..Len(HandedOut) :
             LET p == HandedOut[j]
                 id == engine.ids[p]
             IN  /\ ret[j][2] = id
                 /\ ret[j][1] = IF Matching(id) = {} THEN default_name(p)
                                ELSE monitors[Min(Matching(id))]

\* the resolver has returned, for an identifier that two monitors match, the
\* name of the first of them, and "Monitor 2" for a second identifier that
\* no monitor matches
C20_Witness ==
    /\ op = "get_desktop_wallpaper_monitor_ids"
    /\ Len(ret) = 2
    /\ Cardinality(Matching(ret[1][2])) = 2
    /\ monitors[1] # monitors[2]
    /\ ret[1][1] = monitors[1]
    /\ ret[2][1] = <<"M", "o", "n", "i", "t", "o", "r", " ", "2">>

(* C21: the resolver returns one pair for every identifier the engine hands
   out, in the engine's order, whether or not a monitor matches it, and
   returns the empty sequence when the capability cannot be created (or the
   count cannot be read). *)
C21_AllIdentifiers ==
    op = "get_desktop_wallpaper_monitor_ids"
    => IF engine.os.cap_ok /\ engine.os.count_ok
       THEN [j \in 1..Len(ret) |-> ret[j][2]]
               = [j \in 1..Len(HandedOut) |-> engine.ids[HandedOut[j]]]
       ELSE ret = <<>>

\* the resolver has returned both identifiers of the engine, the first of
\* them matched by no monitor
C21_Witness ==
    /\ op = "get_desktop_wallpaper_monitor_ids"
    /\ Len(engine.ids) = 2
    /\ Len(ret) = 2
    /\ Matching(ret[1][2]) = {}
    /\ Matching(ret[2][2]) # {}

-----------------------------------------------------------------------------
(* The calls on the COM runtime made by the operations that use the engine *)

\* what CoInitialize may answer: first initialization of the thread, the
\* thread is already initialized (also a success, to be balanced by
\* CoUninitialize), or a failure
InitResults == {"S_OK", "S_FALSE", "RPC_E_CHANGED_MODE"}

\* let com_initialized = hr_init == HRESULT(0)
com_initialized(hr_init) == hr_init = "S_OK"

\* the end of each operation: if com_initialized { CoUninitialize() }
uninitialize_calls(hr_init) ==
    IF com_initialized(hr_init) THEN << <<"CoUninitialize", 0>> >> ELSE <<>>

\* the calls of the Method 1 loop from position p on: each identifier handed
\* out is freed, before the break after a SetWallpaper that succeeds or at
\* the end of the loop body
RECURSIVE method1_calls(_, _, _, _)
method1_calls(ids, os, device_name, p) ==
    IF p > Len(ids) THEN <<>>
    ELSE IF p \in os.at_fail THEN method1_calls(ids, os, device_name, p + 1)
    ELSE IF is_match(ids[p], device_name, p) /\ engine_accepts(ids, os, ids[p])
         THEN << <<"GetMonitorDevicePathAt", p>>, <<"CoTaskMemFree", p>> >>
    ELSE << <<"GetMonitorDevicePathAt", p>>, <<"CoTaskMemFree", p>> >>
         \o method1_calls(ids, os, device_name, p + 1)

\* the calls of the resolver's loop from position p on
RECURSIVE resolver_calls(_, _, _)
resolver_calls(ids, os, p) ==
    IF p > Len(ids) THEN <<>>
    ELSE (IF p \in os.at_fail THEN <<>>
          ELSE << <<"GetMonitorDevicePathAt", p>>, <<"CoTaskMemFree", p>> >>)
         \o resolver_calls(ids, os, p + 1)

\* the calls between CoInitialize and the end of an operation: the interface
\* is created, used by body and released when it goes out of scope
scoped_calls(hr_init, cap_ok, body) ==
    << <<"CoInitialize", hr_init>> >>
    \o (IF cap_ok THEN << <<"CoCreateInstance", 0>> >> \o body \o << <<"Release", 0>> >>
        ELSE <<>>)
    \o uninitialize_calls(hr_init)

\* get_current_wallpaper_by_monitor_id: get_ok is whether GetWallpaper
\* succeeds; the string it hands out is freed
get_current_wallpaper_by_monitor_id(hr_init, get_ok) ==
    /\ op' = "get_current_wallpaper_by_monitor_id"
    /\ args' = [hr_init |-> hr_init]
    /\ ret' = (engine.os.cap_ok /\ get_ok)
    /\ calls' = scoped_calls(hr_init, engine.os.cap_ok,
                   IF get_ok THEN << <<"GetWallpaper", 0>>, <<"CoTaskMemFree", 0>> >>
                   ELSE <<>>)
    /\ UNCHANGED <<starting, monitors, profiles, schedule, scheduler_running, tasks, clock, engine, file>>

\* the calls of get_desktop_wallpaper_monitor_ids
resolve_calls(hr_init) ==
    /\ op' = "get_desktop_wallpaper_monitor_ids"
    /\ args' = [hr_init |-> hr_init]
    /\ ret' = IF engine.os.cap_ok /\ engine.os.count_ok
              THEN monitor_ids_from(engine, monitors, 1)
              ELSE <<>>
    /\ calls' = scoped_calls(hr_init, engine.os.cap_ok,
                   IF engine.os.count_ok THEN resolver_calls(engine.ids, engine.os, 1)
                   ELSE <<>>)
    /\ UNCHANGED <<starting, monitors, profiles, schedule, scheduler_running, tasks, clock, engine, file>>

\* the calls of set_wallpaper_for_monitor
set_wallpaper_calls(hr_init, device_name, wallpaper_path) ==
    LET r == set_wallpaper_for_monitor(engine, device_name, wallpaper_path)
    IN  /\ op' = "set_wallpaper_for_monitor"
        /\ args' = [hr_init |-> hr_init, device_name |-> device_name]
        /\ ret' = r.success
        /\ engine' = [engine EXCEPT !.wallpaper = r.wallpaper]
        /\ calls' = scoped_calls(hr_init, engine.os.cap_ok,
                       IF engine.os.count_ok
                       THEN method1_calls(engine.ids, engine.os, device_name, 1)
                       ELSE <<>>)
        /\ UNCHANGED <<starting, monitors, profiles, schedule, scheduler_running, tasks, clock, file>>

ComNext ==
    \/ \E hr \in InitResults, g \in BOOLEAN : get_current_wallpaper_by_monitor_id(hr, g)
    \/ \E hr \in InitResults : resolve_calls(hr)
    \/ \E hr \in InitResults, d \in SetterDevices : set_wallpaper_calls(hr, d, WallpaperFor(d))

ComSpec == SetterInit /\ [][ComNext]_vars

\* how many times call c occurs in the sequence cs
Count(cs, c) == Cardinality({k \in 1..Len(cs) : cs[k] = c})

\* the operations that acquire the wallpaper-engine capability
UsesEngine ==
    op \in {"get_current_wallpaper_by_monitor_id", "get_desktop_wallpaper_monitor_ids",
            "set_wallpaper_for_monitor"}

(* C22: when an operation that uses the engine has returned, every
   CoInitialize that succeeded, with S_OK or with S_FALSE, is matched by
   exactly one CoUninitialize (and a failed one by none), the interface it
   created is released once, and every string the engine handed out is freed
   exactly once. *)
C22_ReleasedOnReturn ==
    UsesEngine =>
        /\ Count(calls, <<"CoUninitialize", 0>>)
              = (IF args.hr_init \in {"S_OK", "S_FALSE"} THEN 1 ELSE 0)
        /\ Count(calls, <<"Release", 0>>) = Count(calls, <<"CoCreateInstance", 0>>)
        /\ Count(calls, <<"CoTaskMemFree", 0>>) = Count(calls, <<"GetWallpaper", 0>>)
        /\ \A p \in 1..Len(engine.ids) :
              /\ Count(calls, <<"GetMonitorDevicePathAt", p>>) <= 1
              /\ Count(calls, <<"CoTaskMemFree", p>>)
                    = Count(calls, <<"GetMonitorDevicePathAt", p>>)


-----------------------------------------------------------------------------
(* Monitor refresh *)

\* the pairs get_desktop_wallpaper_monitor_ids returns when the monitor list
\* is mons
wallpaper_monitor_ids(mons) ==
    IF engine.os.cap_ok /\ engine.os.count_ok THEN monitor_ids_from(engine, mons, 1) ELSE <<>>

\* refresh_monitors: the list is cleared and filled by EnumDisplayMonitors
\* with displays, the OS device names in enumeration order; then, for the
\* i-th pair of the resolver, the device_name of the i-th monitor of the list
\* is overwritten with the pair's identifier. An index beyond the list
\* panics: the overwrites before it are done.
refresh_monitors(displays) ==
    LET ids == wallpaper_monitor_ids(displays)
    IN  /\ op' = "refresh_monitors"
        /\ args' = [displays |-> displays, wallpaper_monitor_ids |-> ids]
        /\ monitors' = [i \in 1..Len(displays) |->
                          IF i <= Len(ids) THEN ids[i][2] ELSE displays[i]]
        /\ ret' = IF Len(ids) > Len(displays) THEN "panicked" ELSE "returned"
        /\ UNCHANGED <<starting, profiles, schedule, scheduler_running, tasks, clock,
                       engine, file, calls>>

\* OS device names of displays
RefreshDevices == { DevicePrefix \o <<"D", "1">>, DevicePrefix \o <<"D", "2">> }

\* what EnumDisplayMonitors can enumerate: each display once, in any order
RefreshDisplays ==
    { d \in UNION {[1..k -> RefreshDevices] : k \in 0..MaxKnown} :
        \A i, j \in 1..Len(d) : d[i] = d[j] => i = j }

\* new() before its call of refresh_monitors, on any engine
RefreshInit ==
    /\ monitors = <<>>
    /\ \E n \in 0..MaxMonitors :
          \E ids \in [1..n -> ResolverIds] :
             \E os \in {o \in OsStates(n) : o.reject = {}} :
                engine = [ids |-> ids, wallpaper |-> [k \in 1..n |-> OldWallpaper], os |-> os]
    /\ profiles = [n \in {} |-> EmptyMap]
    /\ schedule = <<>>
    /\ scheduler_running = FALSE
    /\ tasks = <<>>
    /\ starting = {}
    /\ clock = 0
    /\ file = NoFile
    /\ op = "new"
    /\ args = <<>>
    /\ ret = TRUE
    /\ calls = <<>>

RefreshNext == \E displays \in RefreshDisplays : refresh_monitors(displays)

RefreshSpec == RefreshInit /\ [][RefreshNext]_vars

\* the pairs of the resolver that name the i-th enumerated display
CorrelatedWith(i) ==
    {j \in 1..Len(args.wallpaper_monitor_ids) :
        args.wallpaper_monitor_ids[j][1] = args.displays[i]}

(* C29: after a refresh that returned, the list has one monitor per
   enumerated display, in enumeration order; a monitor whose device_name is
   no longer its OS device name has the identifier of a pair that the
   resolver correlated with that display, and a monitor that the resolver
   correlated no identifier with has its OS device name. *)
C29_OnlyCorrelated ==
    (op = "refresh_monitors" /\ ret = "returned")
    => /\ Len(monitors) = Len(args.displays)
       /\ \A i \in 1..Len(monitors) :
             /\ monitors[i] # args.displays[i]
                   => \E j \in CorrelatedWith(i) :
                         monitors[i] = args.wallpaper_monitor_ids[j][2]
             /\ CorrelatedWith(i) = {} => monitors[i] = args.displays[i]

(* C30: refresh_monitors returns for every number of enumerated displays
   and every number of identifiers of the engine: every position at which
   it overwrites a device_name is a position of the monitor list. *)
C30_NoOutOfRange ==
    op = "refresh_monitors"
    => /\ ret = "returned"
       /\ \A i \in 1..Len(args.wallpaper_monitor_ids) : i \in 1..Len(args.displays)

=============================================================================
